---- MODULE Spec2Model ----
(***************************************************************************)
(* Model of the two subtitle-driven video pipelines of viddystudio:        *)
(*   extract_segments_with_edl.py  (parse -> trim segments -> EDL)         *)
(*   process_video.py              (parse -> trim segments -> concat)      *)
(* Strings are sequences of one-character strings, except that a run of    *)
(* characters containing no quote, digit or separator may be kept as one   *)
(* chunk (e.g. "segment_", ".mov").                                        *)
(***************************************************************************)
EXTENDS Integers, Sequences, FiniteSets, TLC

VARIABLES
    script,        \* which of the two programs runs
    video_exists,  \* os.path.isfile(input_video)
    srt_exists,    \* os.path.isfile(srt_file)
    entries,       \* the lines the subtitle file was written from
    content,       \* the characters of the subtitle file
    segments_dir,  \* configuration: the output directory
    pc,            \* position of main
    time_ranges,   \* result of parse_srt
    idx,           \* loop index of extract_segments
    segments,      \* list built by extract_segments
    dir_created,   \* os.makedirs has run
    trim_calls,    \* the ffmpeg trim commands run so far, in order
    trim_failed,   \* index of the trim that returned non-zero, 0 if none
    edl,           \* lines of the EDL file, <<>> while unwritten
    edl_written,
    concat_list,   \* lines of the concat manifest
    list_written,
    concat_calls,  \* return codes of the ffmpeg concat commands run so far
    exit_status,   \* <<>> while running, <<code>> once the process has ended
    time_str,      \* input of format_time_for_edl (formatter specification)
    timecode       \* its output, <<>> before the call

vars == <<script, video_exists, srt_exists, entries, content, segments_dir, pc,
          time_ranges, idx, segments, dir_created, trim_calls, trim_failed,
          edl, edl_written, concat_list, list_written, concat_calls,
          exit_status, time_str, timecode>>

\* Largest number of lines of a subtitle file.
MaxEntries == 3

EDL == "extract_segments_with_edl"
PV == "process_video"

----------------------------------------------------------------------------
\* Characters, integers and their decimal forms

DigitChars == <<"0", "1", "2", "3", "4", "5", "6", "7", "8", "9">>

Digits == {DigitChars[i] : i \in 1..10}

DigitVal(c) == (CHOOSE i \in 1..10 : DigitChars[i] = c) - 1

RECURSIVE int(_)
\* Python int() of a string of decimal digits
int(s) ==
    IF Len(s) = 0 THEN 0
    ELSE int(SubSeq(s, 1, Len(s) - 1)) * 10 + DigitVal(s[Len(s)])

RECURSIVE str(_)
\* decimal digits of a natural number, no padding
str(n) ==
    IF n < 10 THEN <<DigitChars[n + 1]>>
    ELSE str(n \div 10) \o <<DigitChars[(n % 10) + 1]>>

RECURSIVE zfill(_, _)
\* pad on the left with zeros up to width w; longer strings are unchanged
zfill(s, w) == IF Len(s) >= w THEN s ELSE zfill(<<"0">> \o s, w)

\* the format specs {n:02}, {n:03} and {n:03d}
fmt(n, w) == zfill(str(n), w)

RECURSIVE split(_, _)
\* str.split(sep) for a one-character separator
split(s, sep) ==
    IF \A i \in 1..Len(s) : s[i] # sep THEN <<s>>
    ELSE LET p == CHOOSE i \in 1..Len(s) :
                      s[i] = sep /\ \A j \in 1..(i - 1) : s[j] # sep
         IN <<SubSeq(s, 1, p - 1)>> \o split(SubSeq(s, p + 1, Len(s)), sep)

----------------------------------------------------------------------------
\* The subtitle file

Stamp(h, m, s, ms) == [h |-> h, m |-> m, s |-> s, ms |-> ms]

\* HH:MM:SS<sep>mmm
StampText(t, sep) ==
    fmt(t.h, 2) \o <<":">> \o fmt(t.m, 2) \o <<":">> \o fmt(t.s, 2)
        \o <<sep>> \o fmt(t.ms, 3)

Timing(a, b) == [kind |-> "timing", start |-> a, end |-> b]

\* The lines a subtitle file is made of: timed entries (a placeholder at
\* zero, an entry inside the first minute, a later entry, an entry whose end
\* precedes its start), a caption line and a timing line written with dots.
Lines ==
    { Timing(Stamp(0, 0, 0, 0), Stamp(0, 0, 5, 0)),
      Timing(Stamp(0, 0, 10, 0), Stamp(0, 0, 20, 0)),
      Timing(Stamp(0, 1, 0, 0), Stamp(0, 1, 15, 500)),
      Timing(Stamp(0, 1, 10, 0), Stamp(0, 1, 5, 0)),
      [kind |-> "dotted", start |-> Stamp(0, 2, 0, 0), end |-> Stamp(0, 2, 1, 0)],
      [kind |-> "caption"] }

Arrow == <<" ", "-", "-", ">", " ">>

LineText(l) ==
    IF l.kind = "timing"
        THEN StampText(l.start, ",") \o Arrow \o StampText(l.end, ",")
    ELSE IF l.kind = "dotted"
        THEN StampText(l.start, ".") \o Arrow \o StampText(l.end, ".")
    ELSE <<"7", "H", "i", ":", "0", "0">>

RECURSIVE FileText(_)
FileText(ls) ==
    IF Len(ls) = 0 THEN <<>>
    ELSE LineText(Head(ls)) \o <<"\n">> \o FileText(Tail(ls))

Files == UNION { [1..n -> Lines] : n \in 0..MaxEntries }

----------------------------------------------------------------------------
\* parse_srt

\* \d{2}:\d{2}:\d{2},\d{3}\s-->\s\d{2}:\d{2}:\d{2},\d{3}   ("d" is \d, "s" is \s)
pattern ==
    <<"d", "d", ":", "d", "d", ":", "d", "d", ",", "d", "d", "d", "s",
      "-", "-", ">", "s",
      "d", "d", ":", "d", "d", ":", "d", "d", ",", "d", "d", "d">>

ClassMatch(k, c) ==
    IF k = "d" THEN c \in Digits
    ELSE IF k = "s" THEN c \in {" ", "\t", "\n"}
    ELSE c = k

MatchesAt(s, p) ==
    /\ p + Len(pattern) - 1 <= Len(s)
    /\ \A k \in 1..Len(pattern) : ClassMatch(pattern[k], s[p + k - 1])

RECURSIVE Scan(_, _)
\* start positions of the non-overlapping matches, left to right
Scan(s, p) ==
    IF p > Len(s) THEN <<>>
    ELSE IF MatchesAt(s, p) THEN <<p>> \o Scan(s, p + Len(pattern))
    ELSE Scan(s, p + 1)

\* capture groups of the two patterns, as <<first, last>> offsets in a match
groups_edl ==
    <<<<1, 2>>, <<4, 5>>, <<7, 8>>, <<10, 12>>,
      <<18, 19>>, <<21, 22>>, <<24, 25>>, <<27, 29>>>>

groups_pv == <<<<1, 8>>, <<10, 12>>, <<18, 25>>, <<27, 29>>>>

\* pattern.findall(content): one tuple of group strings per match
findall(s, groups) ==
    LET ps == Scan(s, 1)
    IN [i \in 1..Len(ps) |->
           [g \in 1..Len(groups) |->
               SubSeq(s, ps[i] + groups[g][1] - 1, ps[i] + groups[g][2] - 1)]]

\* faulty variant: the end groups are taken for the start and vice versa
time_range_swapped(match) ==
    <<match[5] \o <<":">> \o match[6] \o <<":">> \o match[7]
          \o <<".">> \o match[8],
      match[1] \o <<":">> \o match[2] \o <<":">> \o match[3]
          \o <<".">> \o match[4]>>

\* the (start_time, end_time) tuple built from one eight-group match
time_range_edl(match) ==
    <<match[1] \o <<":">> \o match[2] \o <<":">> \o match[3]
          \o <<".">> \o match[4],
      match[5] \o <<":">> \o match[6] \o <<":">> \o match[7]
          \o <<".">> \o match[8]>>

parse_srt_edl(s) ==
    LET found == findall(s, groups_edl)
        matches ==
            IF Len(found) > 0 /\ \A k \in 1..2 : found[1][k] = <<"0", "0">>
            THEN Tail(found) ELSE found
    IN [i \in 1..Len(matches) |-> time_range_edl(matches[i])]

parse_srt_pv(s) ==
    LET found == findall(s, groups_pv)
        matches ==
            IF Len(found) > 0 /\ found[1][1] = <<"0", "0">>
                              /\ found[1][2] = <<"0", "0", "0">>
            THEN Tail(found) ELSE found
    IN [i \in 1..Len(matches) |->
           LET match == matches[i]
           IN <<match[1] \o <<".">> \o match[2],
                match[3] \o <<".">> \o match[4]>>]

parse_srt(sc, s) == IF sc = EDL THEN parse_srt_edl(s) ELSE parse_srt_pv(s)

----------------------------------------------------------------------------
\* extract_segments

\* faulty variant: the index is written without zero padding
segment_filename_unpadded(i) == <<"segment_">> \o str(i) \o <<".mov">>

\* f"segment_{idx:03d}.mov"
segment_filename(i) == <<"segment_">> \o fmt(i, 3) \o <<".mov">>

\* os.path.join(segments_dir, segment_filename)
join(dir, name) ==
    IF Len(dir) = 0 THEN name
    ELSE IF dir[Len(dir)] = "/" THEN dir \o name
    ELSE dir \o <<"/">> \o name

\* the ffmpeg trim command of one loop iteration
trim_cmd(i) ==
    [idx |-> i,
     ss |-> time_ranges[i][1],
     to |-> time_ranges[i][2],
     out |-> join(segments_dir, segment_filename(i))]

\* what the loop appends after a successful trim
new_segment(i) ==
    IF script = EDL
        THEN [filename |-> segment_filename(i),
              start |-> time_ranges[i][1],
              end |-> time_ranges[i][2]]
    ELSE join(segments_dir, segment_filename(i))

----------------------------------------------------------------------------
\* format_time_for_edl and generate_edl

FrameRate == 30

\* faulty variant: the frame count is rounded to nearest
frames_of_rounded(millis) == (millis * FrameRate + 500) \div 1000

\* faulty variant: the frame count is rounded up
frames_of_ceil(millis) == (millis * FrameRate + 999) \div 1000

\* int((millis / 1000.0) * 30): the double-precision product truncates to
\* floor(millis * 30 / 1000) for every millis in 0..999
frames_of(millis) == (millis * FrameRate) \div 1000

format_time_for_edl(ts) ==
    LET parts == split(ts, ":")
        hours == int(parts[1])
        minutes == int(parts[2])
        sm == split(parts[3], ".")
        seconds == int(sm[1])
        millis == int(sm[2])
        frames == frames_of(millis)
    IN fmt(hours, 2) \o <<":">> \o fmt(minutes, 2) \o <<":">>
           \o fmt(seconds, 2) \o <<":">> \o fmt(frames, 2)

\* faulty variant: the record side starts where the source side ends
edl_event_shifted(i, segment) ==
    fmt(i, 3) \o <<"  AX       V     C        ">>
        \o format_time_for_edl(segment.start) \o <<" ">>
        \o format_time_for_edl(segment.end) \o <<" ">>
        \o format_time_for_edl(segment.end) \o <<" ">>
        \o format_time_for_edl(segment.end)

edl_event(i, segment) ==
    fmt(i, 3) \o <<"  AX       V     C        ">>
        \o format_time_for_edl(segment.start) \o <<" ">>
        \o format_time_for_edl(segment.end) \o <<" ">>
        \o format_time_for_edl(segment.start) \o <<" ">>
        \o format_time_for_edl(segment.end)

edl_header ==
    << <<"TITLE: Extracted Segments EDL">>, <<"FCM: NON-DROP FRAME">>, <<>> >>

\* the lines generate_edl writes
generate_edl(segs) ==
    edl_header \o [i \in 1..Len(segs) |-> edl_event(i, segs[i])]

----------------------------------------------------------------------------
\* create_concat_list

\* faulty variant: the path is written as it is
replace_quote_none(s) == s

RECURSIVE replace_quote(_)
\* segment.replace("'", "'\\''")
replace_quote(s) ==
    IF Len(s) = 0 THEN <<>>
    ELSE (IF Head(s) = "'" THEN <<"'", "\\", "'", "'">> ELSE <<Head(s)>>)
             \o replace_quote(Tail(s))

\* the lines create_concat_list writes
create_concat_list(segs) ==
    [i \in 1..Len(segs) |->
        <<"file ", "'">> \o replace_quote(segs[i]) \o <<"'">>]

----------------------------------------------------------------------------
\* main

\* exit codes ffmpeg may return
ReturnCodes == {0, 1}

\* segments_dir: main sets it to 'segments'; create_concat_list takes any
\* path, so the manifest is also exercised with a directory holding a quote
Dirs(sc) == IF sc = EDL THEN { <<"segments">> }
            ELSE { <<"segments">>, <<"it", "'", "s">> }

Idle ==
    /\ time_ranges = <<>>
    /\ idx = 0
    /\ segments = <<>>
    /\ dir_created = FALSE
    /\ trim_calls = <<>>
    /\ trim_failed = 0
    /\ edl = <<>>
    /\ edl_written = FALSE
    /\ concat_list = <<>>
    /\ list_written = FALSE
    /\ concat_calls = <<>>
    /\ exit_status = <<>>

Init ==
    /\ script \in {EDL, PV}
    /\ video_exists \in BOOLEAN
    /\ srt_exists \in BOOLEAN
    /\ entries \in Files
    /\ content = FileText(entries)
    /\ segments_dir \in Dirs(script)
    /\ pc = "main"
    /\ Idle
    /\ time_str = <<>>
    /\ timecode = <<>>

config == <<script, video_exists, srt_exists, entries, content, segments_dir>>

fmtvars == <<time_str, timecode>>

\* sys.exit(code)
Exit(code) == pc' = "exited" /\ exit_status' = <<code>>

\* main, from its start to the end of the two isfile checks
CheckInputs ==
    /\ pc = "main"
    /\ IF ~video_exists \/ ~srt_exists THEN Exit(1)
       ELSE pc' = "parse" /\ UNCHANGED exit_status
    /\ UNCHANGED <<config, fmtvars, time_ranges, idx, segments, dir_created,
                   trim_calls, trim_failed, edl, edl_written, concat_list,
                   list_written, concat_calls>>

\* faulty variant: the emptiness check is missing
ParseSrt_unchecked ==
    /\ pc = "parse"
    /\ time_ranges' = parse_srt(script, content)
    /\ pc' = "extract"
    /\ UNCHANGED <<config, fmtvars, idx, segments, dir_created, trim_calls,
                   trim_failed, edl, edl_written, concat_list, list_written,
                   concat_calls, exit_status>>

\* Step 1 of main: parse_srt and the emptiness check
ParseSrt ==
    /\ pc = "parse"
    /\ time_ranges' = parse_srt(script, content)
    /\ IF Len(time_ranges') = 0 THEN Exit(1)
       ELSE pc' = "extract" /\ UNCHANGED exit_status
    /\ UNCHANGED <<config, fmtvars, idx, segments, dir_created, trim_calls,
                   trim_failed, edl, edl_written, concat_list, list_written,
                   concat_calls>>

\* where main goes when extract_segments returns
AfterExtract == IF script = EDL THEN "generate_edl" ELSE "create_concat_list"

\* extract_segments up to its loop: os.makedirs and segments = []
MakeDirs ==
    /\ pc = "extract"
    /\ dir_created' = TRUE
    /\ segments' = <<>>
    /\ idx' = 1
    /\ pc' = IF Len(time_ranges) = 0 THEN AfterExtract ELSE "trim"
    /\ UNCHANGED <<config, fmtvars, time_ranges, trim_calls, trim_failed, edl,
                   edl_written, concat_list, list_written, concat_calls,
                   exit_status>>

\* one loop iteration whose subprocess.run returns 0
TrimOk ==
    /\ pc = "trim"
    /\ idx <= Len(time_ranges)
    /\ trim_calls' = Append(trim_calls, trim_cmd(idx))
    /\ segments' = Append(segments, new_segment(idx))
    /\ idx' = idx + 1
    /\ pc' = IF idx = Len(time_ranges) THEN AfterExtract ELSE "trim"
    /\ UNCHANGED <<config, fmtvars, time_ranges, dir_created, trim_failed, edl,
                   edl_written, concat_list, list_written, concat_calls,
                   exit_status>>

\* faulty variant: a failed trim is reported and the loop goes on
TrimFail_continues ==
    /\ pc = "trim"
    /\ idx <= Len(time_ranges)
    /\ trim_calls' = Append(trim_calls, trim_cmd(idx))
    /\ trim_failed' = idx
    /\ idx' = idx + 1
    /\ pc' = IF idx = Len(time_ranges) THEN AfterExtract ELSE "trim"
    /\ UNCHANGED <<config, fmtvars, time_ranges, segments, dir_created, edl,
                   edl_written, concat_list, list_written, concat_calls,
                   exit_status>>

\* one loop iteration whose subprocess.run returns non-zero
TrimFail ==
    /\ pc = "trim"
    /\ idx <= Len(time_ranges)
    /\ trim_calls' = Append(trim_calls, trim_cmd(idx))
    /\ trim_failed' = idx
    /\ Exit(1)
    /\ UNCHANGED <<config, fmtvars, time_ranges, idx, segments, dir_created,
                   edl, edl_written, concat_list, list_written, concat_calls>>

\* Step 3 of extract_segments_with_edl.main, and the return of main
GenerateEdl ==
    /\ pc = "generate_edl"
    /\ edl' = generate_edl(segments)
    /\ edl_written' = TRUE
    /\ Exit(0)
    /\ UNCHANGED <<config, fmtvars, time_ranges, idx, segments, dir_created,
                   trim_calls, trim_failed, concat_list, list_written,
                   concat_calls>>

\* Step 3 of process_video.main
CreateConcatList ==
    /\ pc = "create_concat_list"
    /\ concat_list' = create_concat_list(segments)
    /\ list_written' = TRUE
    /\ pc' = "concatenate"
    /\ UNCHANGED <<config, fmtvars, time_ranges, idx, segments, dir_created,
                   trim_calls, trim_failed, edl, edl_written, concat_calls,
                   exit_status>>

\* Step 4 of process_video.main: concatenate_segments, and the return of main
ConcatenateSegments(returncode) ==
    /\ pc = "concatenate"
    /\ concat_calls' = Append(concat_calls, returncode)
    /\ Exit(IF returncode # 0 THEN 1 ELSE 0)
    /\ UNCHANGED <<config, fmtvars, time_ranges, idx, segments, dir_created,
                   trim_calls, trim_failed, edl, edl_written, concat_list,
                   list_written>>

Next ==
    \/ CheckInputs
    \/ ParseSrt
    \/ MakeDirs
    \/ TrimOk
    \/ TrimFail
    \/ GenerateEdl
    \/ CreateConcatList
    \/ \E returncode \in ReturnCodes : ConcatenateSegments(returncode)

Spec == Init /\ [][Next]_vars

----------------------------------------------------------------------------
\* The timecode formatter on its own: every timestamp text the parser can
\* hand over (two-digit fields, three-digit milliseconds)

FmtHours == {0, 1, 23}

FmtMinutes == {0, 1, 59}

FmtSeconds == {0, 2, 59}

Millis == 0..999

InitFmt ==
    /\ script = EDL
    /\ video_exists = TRUE
    /\ srt_exists = TRUE
    /\ entries = <<>>
    /\ content = <<>>
    /\ segments_dir = <<"segments">>
    /\ pc = "format"
    /\ Idle
    /\ \E h \in FmtHours, m \in FmtMinutes, s \in FmtSeconds, ms \in Millis :
           time_str = StampText(Stamp(h, m, s, ms), ".")
    /\ timecode = <<>>

FormatTime ==
    /\ pc = "format"
    /\ timecode = <<>>
    /\ timecode' = format_time_for_edl(time_str)
    /\ UNCHANGED <<config, pc, time_ranges, idx, segments, dir_created,
                   trim_calls, trim_failed, edl, edl_written, concat_list,
                   list_written, concat_calls, exit_status, time_str>>

NextFmt == FormatTime

SpecFmt == InitFmt /\ [][NextFmt]_vars

----------------------------------------------------------------------------
\* Vocabulary of the properties

\* the timed entries of the subtitle file, in file order
Timed == SelectSeq(entries, LAMBDA l : l.kind = "timing")

Zero == Stamp(0, 0, 0, 0)

\* the (start, end) texts a timed entry stands for
RangeOf(l) == <<StampText(l.start, "."), StampText(l.end, ".")>>

ToMillis(t) == ((t.h * 60 + t.m) * 60 + t.s) * 1000 + t.ms

\* the timestamp a text HH:MM:SS.mmm denotes
StampOf(ts) ==
    Stamp(int(SubSeq(ts, 1, 2)), int(SubSeq(ts, 4, 5)), int(SubSeq(ts, 7, 8)),
          int(SubSeq(ts, 10, 12)))

\* parse_srt has returned
Parsed == video_exists /\ srt_exists /\ pc \notin {"main", "parse", "format"}

\* extract_segments has returned
Extracted ==
    Parsed /\ dir_created /\ trim_failed = 0 /\ idx = Len(time_ranges) + 1

\* name is segment_<digits>.mov, at least three digits, of value i
NamedByIndex(name, i) ==
    /\ Len(name) >= 5
    /\ name[1] = "segment_"
    /\ name[Len(name)] = ".mov"
    /\ \A k \in 2..(Len(name) - 1) : name[k] \in Digits
    /\ int(SubSeq(name, 2, Len(name) - 1)) = i

\* the part of a path after the output directory and its separator
BaseName(path) == SubSeq(path, Len(segments_dir) + 2, Len(path))

----------------------------------------------------------------------------
\* C1: a trim that returns non-zero for segment k ends the run at once with
\* exit status 1: exactly the trims 1..k have been invoked, each once, and
\* neither the EDL, nor the manifest, nor the concatenation has happened.
C1_TrimFailureAborts ==
    trim_failed # 0 =>
        /\ pc = "exited"
        /\ exit_status = <<1>>
        /\ Len(trim_calls) = trim_failed
        /\ \A j \in 1..Len(trim_calls) : trim_calls[j].idx = j
        /\ Len(segments) = trim_failed - 1
        /\ ~edl_written /\ edl = <<>>
        /\ ~list_written /\ concat_list = <<>>
        /\ concat_calls = <<>>

C1_Witness ==
    /\ trim_failed = 2
    /\ Len(time_ranges) = 3
    /\ pc = "exited"

\* C2: when every trim has succeeded there is one segment per time range, in
\* order; the i-th one was cut from the i-th range by the i-th trim and is
\* named segment_<i in at least three digits>.mov, so names are distinct.
C2_OneSegmentPerRange ==
    Extracted =>
        /\ Len(segments) = Len(time_ranges)
        /\ Len(trim_calls) = Len(time_ranges)
        /\ \A i \in 1..Len(segments) :
            /\ trim_calls[i].idx = i
            /\ trim_calls[i].ss = time_ranges[i][1]
            /\ trim_calls[i].to = time_ranges[i][2]
            /\ NamedByIndex(BaseName(trim_calls[i].out), i)
            /\ IF script = EDL
                   THEN /\ NamedByIndex(segments[i].filename, i)
                        /\ segments[i].start = time_ranges[i][1]
                        /\ segments[i].end = time_ranges[i][2]
               ELSE /\ segments[i] = trim_calls[i].out
                    /\ SubSeq(segments[i], 1, Len(segments_dir)) = segments_dir
        /\ \A i, j \in 1..Len(segments) :
               i # j => trim_calls[i].out # trim_calls[j].out

C2_Witness ==
    /\ Extracted
    /\ Len(segments) = 3
    /\ time_ranges[1] # time_ranges[2]

\* C3: in both programs, a file whose first timed entry starts at
\* 00:00:00,000 parses to the remaining N-1 entries, in file order.
C3_DropsLeadingPlaceholder ==
    (Parsed /\ Len(Timed) >= 1 /\ Timed[1].start = Zero) =>
        time_ranges = [i \in 1..(Len(Timed) - 1) |-> RangeOf(Timed[i + 1])]

\* C4: in both programs, a file with N >= 1 timed entries whose first one
\* does not start at 00:00:00,000 parses to exactly those N entries, in order.
C4_KeepsAllWithoutPlaceholder ==
    (Parsed /\ Len(Timed) >= 1 /\ Timed[1].start # Zero) =>
        time_ranges = [i \in 1..Len(Timed) |-> RangeOf(Timed[i])]

\* C5: the timecode of HH:MM:SS.mmm has four two-digit fields; the first
\* three are the input's hours, minutes and seconds and the fourth is
\* floor(mmm * 30 / 1000); 00:01:02.500 gives 00:01:02:15.
C5_TimecodeFields ==
    timecode # <<>> =>
        LET t == StampOf(time_str)
            f == split(timecode, ":")
        IN /\ Len(f) = 4
           /\ \A k \in 1..4 : Len(f[k]) = 2 /\ \A d \in 1..2 : f[k][d] \in Digits
           /\ int(f[1]) = t.h
           /\ int(f[2]) = t.m
           /\ int(f[3]) = t.s
           /\ 1000 * int(f[4]) <= t.ms * 30
           /\ t.ms * 30 < 1000 * (int(f[4]) + 1)
           /\ (t = Stamp(0, 1, 2, 500) =>
                  timecode = <<"0", "0", ":", "0", "1", ":", "0", "2", ":",
                               "1", "5">>)

C5_Witness ==
    /\ timecode # <<>>
    /\ StampOf(time_str) = Stamp(0, 1, 2, 500)

\* C6: a missing video, a missing subtitle file or an empty parse ends main
\* with status 1 before the output directory exists and before any external
\* command; a failed trim or concatenation ends it with status 1; status 0
\* means every step of the pipeline has completed.
C6_ExitStatus ==
    /\ exit_status \in {<<>>, <<0>>, <<1>>}
    /\ (pc = "exited") = (exit_status # <<>>)
    /\ (~video_exists \/ ~srt_exists \/ (Parsed /\ time_ranges = <<>>)) =>
           /\ pc \in {"main", "exited"}
           /\ pc = "exited" => exit_status = <<1>>
           /\ ~dir_created
           /\ trim_calls = <<>>
           /\ concat_calls = <<>>
    /\ trim_failed # 0 => exit_status = <<1>>
    /\ (\E k \in 1..Len(concat_calls) : concat_calls[k] # 0) =>
           exit_status = <<1>>
    /\ exit_status = <<0>> =>
           /\ video_exists /\ srt_exists
           /\ time_ranges # <<>>
           /\ dir_created
           /\ trim_failed = 0
           /\ Len(trim_calls) = Len(time_ranges)
           /\ Len(segments) = Len(time_ranges)
           /\ IF script = EDL THEN edl_written /\ concat_calls = <<>>
              ELSE list_written /\ concat_calls = <<0>>

C6_Witness ==
    /\ pc = "exited"
    /\ exit_status = <<1>>
    /\ video_exists /\ srt_exists
    /\ Len(Timed) = 0
    /\ Len(entries) = 2

\* the number and the four timecodes of an EDL event line
EventFields(line) ==
    LET p == CHOOSE k \in 1..Len(line) : line[k] = "  AX       V     C        "
    IN <<SubSeq(line, 1, p - 1)>> \o split(SubSeq(line, p + 1, Len(line)), " ")

\* C7: the EDL is written only after all N trims have succeeded; after its
\* header it has one event per segment, numbered 1..N in order, whose
\* source-in and record-in are the formatted start of the segment's range and
\* whose source-out and record-out are its formatted end; a placeholder
\* followed by two entries gives 2 segments and 2 events.
C7_EdlEvents ==
    edl_written =>
        /\ script = EDL
        /\ Extracted
        /\ Len(trim_calls) = Len(time_ranges)
        /\ Len(segments) = Len(time_ranges)
        /\ Len(edl) = Len(edl_header) + Len(segments)
        /\ \A i \in 1..Len(segments) :
               LET f == EventFields(edl[Len(edl_header) + i])
               IN /\ Len(f) = 5
                  /\ int(f[1]) = i
                  /\ f[2] = format_time_for_edl(time_ranges[i][1])
                  /\ f[3] = format_time_for_edl(time_ranges[i][2])
                  /\ f[4] = f[2]
                  /\ f[5] = f[3]
        /\ (Len(Timed) = 3 /\ Timed[1].start = Zero) =>
               /\ Len(segments) = 2
               /\ Len(edl) = Len(edl_header) + 2
               /\ \A i \in 1..2 : segments[i].start = RangeOf(Timed[i + 1])[1]
                                  /\ segments[i].end = RangeOf(Timed[i + 1])[2]
        /\ (Len(Timed) = 3 /\ Timed[3].end = Stamp(0, 1, 15, 500)) =>
               SubSeq(edl[Len(edl)], Len(edl[Len(edl)]) - 2, Len(edl[Len(edl)]))
                   = <<":", "1", "5">>

C7_Witness ==
    /\ edl_written
    /\ Len(Timed) = 3
    /\ Timed[1].start = Zero
    /\ Timed[2].start = Stamp(0, 0, 10, 0)
    /\ Timed[3].end = Stamp(0, 1, 15, 500)

RECURSIVE Unescape(_)
\* the text an escaped manifest path stands for; a quote that is not part of
\* the four-character escape sequence ends it with the marker "?"
Unescape(s) ==
    IF Len(s) = 0 THEN <<>>
    ELSE IF Head(s) # "'" THEN <<Head(s)>> \o Unescape(Tail(s))
    ELSE IF Len(s) >= 4 /\ SubSeq(s, 1, 4) = <<"'", "\\", "'", "'">>
        THEN <<"'">> \o Unescape(SubSeq(s, 5, Len(s)))
    ELSE <<"?">>

\* C8: the manifest is written only after all N trims have succeeded; its
\* i-th of N lines is the i-th segment path in single quotes with every
\* embedded quote written as quote-backslash-quote-quote; the concatenation
\* runs once, after the manifest, and its non-zero return ends the run with
\* status 1.
C8_ManifestAndConcat ==
    /\ list_written =>
        /\ script = PV
        /\ Extracted
        /\ Len(trim_calls) = Len(time_ranges)
        /\ Len(concat_list) = Len(time_ranges)
        /\ \A i \in 1..Len(concat_list) :
               LET line == concat_list[i]
                   body == SubSeq(line, 3, Len(line) - 1)
               IN /\ Len(line) >= 3
                  /\ line[1] = "file "
                  /\ line[2] = "'"
                  /\ line[Len(line)] = "'"
                  /\ Unescape(body) = segments[i]
                  /\ segments[i] = join(segments_dir, segment_filename(i))
    /\ concat_calls # <<>> =>
        /\ list_written
        /\ Len(concat_calls) = 1
        /\ pc = "exited"
        /\ exit_status = <<IF concat_calls[1] # 0 THEN 1 ELSE 0>>

C8_Witness ==
    /\ list_written
    /\ Len(concat_list) = 2
    /\ \E k \in 1..Len(segments_dir) : segments_dir[k] = "'"
    /\ concat_calls = <<1>>

StartBeforeEnd(r) == ToMillis(StampOf(r[1])) < ToMillis(StampOf(r[2]))

\* C9, as stated: every time range parse_srt returns has start < end,
\* whatever matching entries the file holds.
C9_StartBeforeEnd_AnyInput ==
    Parsed => \A i \in 1..Len(time_ranges) : StartBeforeEnd(time_ranges[i])

\* C9, amended: when every timed entry of the file has start < end, every
\* time range parse_srt returns has start < end.
C9_StartBeforeEnd ==
    (Parsed /\ \A k \in 1..Len(Timed) :
                   ToMillis(Timed[k].start) < ToMillis(Timed[k].end)) =>
        \A i \in 1..Len(time_ranges) : StartBeforeEnd(time_ranges[i])

C9_Witness ==
    /\ Parsed
    /\ Len(Timed) = 3
    /\ \A k \in 1..Len(Timed) : ToMillis(Timed[k].start) < ToMillis(Timed[k].end)
    /\ Len(time_ranges) >= 2

\* C10: the frame field of every timecode is two digits with a value in
\* 0..29, below the frame rate.
C10_FrameBelowRate ==
    timecode # <<>> =>
        LET f == split(timecode, ":")
        IN /\ Len(f) = 4
           /\ Len(f[4]) = 2
           /\ int(f[4]) >= 0
           /\ int(f[4]) < FrameRate

C10_Witness ==
    /\ timecode # <<>>
    /\ StampOf(time_str).ms = 999
    /\ int(split(timecode, ":")[4]) = 29

====
